---- MODULE Spec2Model ----
(***************************************************************************)
(* Model of the Si4467 high level analyzer (si4467_analyzer.py): the       *)
(* command registry, the three per-byte decoders and Si4467Analyzer.decode *)
(* driven by a stream of SPI frames (enable, result, disable).             *)
(*                                                                         *)
(* Python values are represented as follows.  An Optional[int] is the int  *)
(* or None (-1, no byte value).  An Optional[List[str]] is <<list>> or     *)
(* <<>> for None.  A str is a TLA+ string; f-strings are built with \o and *)
(* ToString.  The value returned by decode() is the sequence of frames it  *)
(* returns: <<>> for None, <<frame>> for one AnalyzerFrame.                *)
(***************************************************************************)
EXTENDS Integers, Sequences, FiniteSets, TLC

(***************************************************************************)
(* Bounds of the model.                                                    *)
(***************************************************************************)
\* number of frames handed to decode() in one run
MaxTime == 10
\* longest _bytes_sent list explored
MaxSent == 3
\* longest _bytes_received list explored
MaxReceived == 5

(***************************************************************************)
(* class Command(Enum)                                                     *)
(***************************************************************************)
None == -1

POWER_UP == 2
NOP == 0
PART_INFO == 1
FUNC_INFO == 16
SET_PROPERTY == 17
GET_PROPERTY == 18
GPIO_PIN_CFG == 19
FIFO_INFO == 21
GET_INT_STATUS == 32
REQUEST_DEVICE_STATE == 51
CHANGE_STATE == 52
OFFLINE_RECAL == 56
READ_CMD_BUFF == 68
FRR_A_READ == 80
FRR_B_READ == 81
FRR_C_READ == 83
FRR_D_READ == 87
IRCAL_MANUAL == 26
TX_HOP == 55
WRITE_TX_FIFO == 102
PACKET_INFO == 22
GET_MODEM_STATUS == 34
START_RX == 50
RX_HOP == 54
READ_RX_FIFO == 119
GET_ADC_READING == 20
GET_PH_STATUS == 33
GET_CHIP_STATUS == 35

(***************************************************************************)
(* String formatting                                                       *)
(***************************************************************************)
HexDigit == <<"0", "1", "2", "3", "4", "5", "6", "7",
              "8", "9", "a", "b", "c", "d", "e", "f">>

\* f"0x{v:02x}" for a byte value v
Hex(v) == "0x" \o HexDigit[(v \div 16) + 1] \o HexDigit[(v % 16) + 1]

\* f"{prefix}[{n}]"
Indexed(prefix, n) == prefix \o "[" \o ToString(n) \o "]"

\* [f"{prefix}[{x}]" for x in range(0, n)]
IndexedRange(prefix, n) == [x \in 1..n |-> Indexed(prefix, x - 1)]

\* " ".join(f"0x{b.value:02x}" for b in bytes)
RECURSIVE JoinHex(_)
JoinHex(bytes) ==
    IF bytes = <<>> THEN ""
    ELSE IF Len(bytes) = 1 THEN Hex(bytes[1].value)
    ELSE Hex(bytes[1].value) \o " " \o JoinHex(Tail(bytes))

(***************************************************************************)
(* CommandDescription and COMMAND_LIST                                     *)
(***************************************************************************)
NoList == <<>>
Some(list) == <<list>>

CommandDescription(id, name, argument_names, response_names) ==
    [id |-> id, name |-> name,
     argument_names |-> argument_names, response_names |-> response_names]

COMMAND_LIST == <<
    CommandDescription(2, "POWER_UP",
        Some(<<"CMD", "BOOT_OPTIONS", "XTAL_OPTIONS", "XO_FREQ[31:24]", "XO_FREQ[23:16]", "XO_FREQ[15:8]", "XO_FREQ[7:0]">>),
        Some(<<"CTS">>)),
    CommandDescription(0, "NOP",
        Some(<<"CMD">>),
        Some(<<"CTS">>)),
    CommandDescription(1, "PART_INFO",
        Some(<<"CMD">>),
        Some(<<"CTS", "CHIPREV", "PART[15:8]", "PART[7:0]", "PBUILD", "ID[15:8]", "ID[7:0]", "CUSTOMER", "ROMID">>)),
    CommandDescription(16, "FUNC_INFO",
        Some(<<"CMD">>),
        Some(<<"CTS", "REVEXT", "REVBRANCH", "REVINT", "PATCH[15:8]", "PATCH[7:0]", "FUNC">>)),
    CommandDescription(17, "SET_PROPERTY",
        Some(<<"CMD", "GROUP", "NUM_PROPS", "START_PROP">> \o IndexedRange("DATA", 12)),
        Some(<<"CTS">>)),
    CommandDescription(18, "GET_PROPERTY",
        Some(<<"CMD", "GROUP", "NUM_PROPS", "START_PROP">>),
        Some(<<"CTS">> \o IndexedRange("DATA", 16))),
    CommandDescription(19, "GPIO_PIN_CFG",
        Some(<<"CMD", "GPIO[0]", "GPIO[1]", "GPIO[2]", "GPIO[3]", "NIRQ", "SDO", "GEN_CONFIG">>),
        Some(<<"CTS", "GPIO[0]", "GPIO[1]", "GPIO[2]", "GPIO[3]", "NIRQ", "SDO", "GEN_CONFIG">>)),
    CommandDescription(21, "FIFO_INFO",
        Some(<<"CMD", "FIFO">>),
        Some(<<"CTS", "RX_FIFO_COUNT", "TX_FIFO_SPACE">>)),
    CommandDescription(32, "GET_INT_STATUS",
        Some(<<"CMD", "PH_CLR_PEND", "MODEM_CLR_PEND", "CHIP_CLR_PEND">>),
        Some(<<"CTS", "INT_PEND", "INT_STATUS", "PH_PEND", "PH_STATUS", "MODEM_PEND", "MODEM_STATUS", "CHIP_PEND", "CHIP_STATUS", "INFO_FLAGS">>)),
    CommandDescription(51, "REQUEST_DEVICE_STATE",
        Some(<<"CMD">>),
        Some(<<"CTS", "CURR_STATE", "CURRENT_CHANNEL">>)),
    CommandDescription(52, "CHANGE_STATE",
        Some(<<"CMD", "NEXT_STATE1">>),
        Some(<<"CTS">>)),
    CommandDescription(56, "OFFLINE_RECAL",
        Some(<<"CMD", "CAL_CTRL">>),
        Some(<<"CTS">>)),
    CommandDescription(68, "READ_CMD_BUFF",
        Some(<<"CMD">>),
        Some(<<"CTS">> \o IndexedRange("BYTE", 16))),
    CommandDescription(80, "FRR_A_READ",
        Some(<<"CMD">>),
        Some(<<"CTS", "FRR_A_VALUE", "FRR_B_VALUE", "FRR_C_VALUE", "FRR_D_VALUE">>)),
    CommandDescription(81, "FRR_B_READ",
        Some(<<"CMD">>),
        Some(<<"CTS", "FRR_B_VALUE", "FRR_C_VALUE", "FRR_D_VALUE", "FRR_A_VALUE">>)),
    CommandDescription(83, "FRR_C_READ",
        Some(<<"CMD">>),
        Some(<<"CTS", "FRR_C_VALUE", "FRR_D_VALUE", "FRR_A_VALUE", "FRR_B_VALUE">>)),
    CommandDescription(87, "FRR_D_READ",
        Some(<<"CMD">>),
        Some(<<"CTS", "FRR_D_VALUE", "FRR_A_VALUE", "FRR_B_VALUE", "FRR_C_VALUE">>)),
    CommandDescription(23, "IRCAL",
        Some(<<"CMD", "SEARCHING_STEP_SIZE", "SEARCHING_RSSI_AVG", "RX_CHAIN_SETTING1", "RX_CHAIN_SETTING2">>),
        Some(<<"CTS">>)),
    CommandDescription(26, "IRCAL_MANUAL",
        Some(<<"CMD", "IRCAL_AMP", "IRCAL_PH">>),
        Some(<<"CTS", "IRCAL_AMP_REPLY", "IRCAL_PH_REPLY">>)),
    CommandDescription(49, "START_TX",
        Some(<<"CMD", "CHANNEL", "CONDITION", "TX_LEN[12:8]", "TX_LEN[7:0]", "TX_DELAY", "NUM_REPEAT">>),
        Some(<<"CTS">>)),
    CommandDescription(55, "TX_HOP",
        Some(<<"CMD", "INTE", "FRAC[22:16]", "FRAC[15:8]", "FRAC[7:0]", "VCO_CNT[15:8]", "VCO_CNT[7:0]", "PLL_SETTLE_TIME[15:8]", "PLL_SETTLE_TIME[7:0]">>),
        Some(<<"CTS">>)),
    CommandDescription(102, "WRITE_TX_FIFO", NoList, NoList),
    CommandDescription(22, "PACKET_INFO",
        Some(<<"CMD", "FIELD_NUMBER", "LEN[15:8]", "LEN[7:0]", "LEN_DIFF[15:8]", "LEN_DIFF[7:0]">>),
        Some(<<"CTS", "LENGTH[15:8]", "LENGTH[7:0]">>)),
    CommandDescription(34, "GET_MODEM_STATUS",
        Some(<<"CMD", "MODEM_CLR_PEND">>),
        Some(<<"CTS", "MODEM_PEND", "MODEM_STATUS", "CURR_RSSI", "LATCH_RSSI", "ANT1_RSSI", "ANT2_RSSI", "AFC_FREQ_OFFSET[15:8]", "AFC_FREQ_OFFSET[7:0]", "INFO_FLAGS">>)),
    CommandDescription(50, "START_RX",
        Some(<<"CMD", "CHANNEL", "CONDITION", "RX_LEN[12:8]", "RX_LEN[7:0]", "RXTIMEOUT_STATE", "RXVALID_STATE", "RXINVALID_STATE">>),
        Some(<<"CTS">>)),
    CommandDescription(54, "RX_HOP",
        Some(<<"CMD", "INTE", "FRAC[19:16]", "FRAC[15:8]", "FRAC[7:0]", "VCO_CNT[15:8]", "VCO_CNT[7:0]">>),
        Some(<<"CTS">>)),
    CommandDescription(119, "READ_RX_FIFO", Some(<<"CMD">>), NoList),
    CommandDescription(20, "GET_ADC_READING",
        Some(<<"CMD", "ADC_EN", "ADC_CFG">>),
        Some(<<"CTS", "GPIO_ADC[10:8]", "GPIO_ADC[7:0]", "BATTERY_ADC[10:8]", "BATTERY_ADC[7:0]", "TEMP_ADC[10:8]", "TEMP_ADC[7:0]">>)),
    CommandDescription(33, "GET_PH_STATUS",
        Some(<<"CMD", "PH_CLR_PEND">>),
        Some(<<"CTS", "PH_PEND", "PH_STATUS">>)),
    CommandDescription(35, "GET_CHIP_STATUS",
        Some(<<"CMD", "CHIP_CLR_PEND">>),
        Some(<<"CTS", "CHIP_PEND", "CHIP_STATUS", "CMD_ERR_STATUS", "CMD_ERR_CMD_ID", "INFO_FLAGS">>))
>>

\* the keys of the dicts COMMAND_ID_TO_NAME and COMMAND_ID_TO_DESCRIPTION
COMMAND_IDS == {COMMAND_LIST[i].id : i \in 1..Len(COMMAND_LIST)}

\* a dict comprehension keeps the last entry of a key
LastIndexOf(id) ==
    CHOOSE i \in 1..Len(COMMAND_LIST) :
        /\ COMMAND_LIST[i].id = id
        /\ \A j \in 1..Len(COMMAND_LIST) : COMMAND_LIST[j].id = id => j <= i

\* COMMAND_ID_TO_NAME[id], for id in COMMAND_IDS
COMMAND_ID_TO_NAME(id) == COMMAND_LIST[LastIndexOf(id)].name

\* COMMAND_ID_TO_DESCRIPTION[id], for id in COMMAND_IDS
COMMAND_ID_TO_DESCRIPTION(id) == COMMAND_LIST[LastIndexOf(id)]

COMMANDS_WITH_IMMEDIATE_RESPONSE ==
    {FRR_A_READ, FRR_B_READ, FRR_C_READ, FRR_D_READ, READ_CMD_BUFF, READ_RX_FIFO}

(***************************************************************************)
(* Byte and AnalyzerFrame                                                  *)
(***************************************************************************)
Byte(value, start_time, end_time) ==
    [value |-> value, start_time |-> start_time, end_time |-> end_time]

AnalyzerFrame(type, start_time, end_time, name, payload) ==
    [type |-> type, start_time |-> start_time, end_time |-> end_time,
     name |-> name, payload |-> payload]

\* received[-1], sent[-1]
Last(list) == list[Len(list)]

\* what a call leaves behind: the frames it returned, or the exception it
\* raised and the source line that raised it (0: none)
Returned(frame) == [raised |-> "", line |-> 0, frames |-> <<frame>>]
ReturnedNone == [raised |-> "", line |-> 0, frames |-> <<>>]
Raised(exception, line) == [raised |-> exception, line |-> line, frames |-> <<>>]

(***************************************************************************)
(* decode_immediate_reponse_byte                                           *)
(***************************************************************************)
\* the assert statements of lines 167, 177, 187, 197, 207
ImmediateAssertsHold(command_id, last_byte_offset) ==
    /\ command_id \in COMMANDS_WITH_IMMEDIATE_RESPONSE
    /\ command_id \in {FRR_A_READ, FRR_B_READ, FRR_C_READ, FRR_D_READ}
          => last_byte_offset <= 3

\* the line of the assert statement that fails, when one does
ImmediateAssertLine(command_id) ==
    IF command_id \notin COMMANDS_WITH_IMMEDIATE_RESPONSE THEN 167
    ELSE IF command_id = FRR_A_READ THEN 177
    ELSE IF command_id = FRR_B_READ THEN 187
    ELSE IF command_id = FRR_C_READ THEN 197
    ELSE 207

\* the chain with every FRR_x_READ answered from register A on
ImmediateName_NoRotation(command_id, last_byte_offset) ==
    IF command_id = READ_CMD_BUFF THEN
        IF last_byte_offset = 0 THEN "CTS"
        ELSE Indexed("BYTE", last_byte_offset - 1)
    ELSE IF command_id = READ_RX_FIFO THEN
        Indexed("DATA", last_byte_offset)
    ELSE IF command_id \in {FRR_A_READ, FRR_B_READ, FRR_C_READ, FRR_D_READ} THEN
        <<"FRR_A_VALUE", "FRR_B_VALUE", "FRR_C_VALUE", "FRR_D_VALUE">>[last_byte_offset + 1]
    ELSE "Unknown immediate response"

\* the if/elif chain of lines 169-215, where no assert fails
ImmediateName(command_id, last_byte_offset) ==
    IF command_id = READ_CMD_BUFF THEN
        IF last_byte_offset = 0 THEN "CTS"
        ELSE Indexed("BYTE", last_byte_offset - 1)
    ELSE IF command_id = READ_RX_FIFO THEN
        Indexed("DATA", last_byte_offset)
    ELSE IF command_id = FRR_A_READ THEN
        <<"FRR_A_VALUE", "FRR_B_VALUE", "FRR_C_VALUE", "FRR_D_VALUE">>[last_byte_offset + 1]
    ELSE IF command_id = FRR_B_READ THEN
        <<"FRR_B_VALUE", "FRR_C_VALUE", "FRR_D_VALUE", "FRR_A_VALUE">>[last_byte_offset + 1]
    ELSE IF command_id = FRR_C_READ THEN
        <<"FRR_C_VALUE", "FRR_D_VALUE", "FRR_A_VALUE", "FRR_B_VALUE">>[last_byte_offset + 1]
    ELSE IF command_id = FRR_D_READ THEN
        <<"FRR_D_VALUE", "FRR_A_VALUE", "FRR_B_VALUE", "FRR_C_VALUE">>[last_byte_offset + 1]
    ELSE "Unknown immediate response"

decode_immediate_reponse_byte(command_id, received) ==
    LET last_byte == Last(received)
        count == Len(received)
        last_byte_offset == count - 1
        payload == Hex(last_byte.value)
    IN  IF ~ImmediateAssertsHold(command_id, last_byte_offset)
        THEN Raised("AssertionError", ImmediateAssertLine(command_id))
        ELSE Returned(AnalyzerFrame("command_payload",
                 last_byte.start_time, last_byte.end_time,
                 "< " \o ImmediateName(command_id, last_byte_offset), payload))

(***************************************************************************)
(* decode_read_cmd_buff_reponse_byte                                       *)
(***************************************************************************)
\* line 235
RxFifoCountName(value) ==
    IF value <= 129 THEN "RX_FIFO_COUNT (" \o ToString(value) \o ")"
    ELSE "RX_FIFO_COUNT (overflow!)"

\* the threshold of line 237 taken as exclusive
TxFifoSpaceName_Exclusive(value) ==
    IF value < 129 THEN "TX_FIFO_SPACE (" \o ToString(value) \o ")"
    ELSE "TX_FIFO_SPACE (illegal!)"

\* line 237
TxFifoSpaceName(value) ==
    IF value <= 129 THEN "TX_FIFO_SPACE (" \o ToString(value) \o ")"
    ELSE "TX_FIFO_SPACE (illegal!)"

\* line 239: KeyError for an unregistered id, TypeError for response_names
\* None and IndexError past the end of the list are swallowed by the bare
\* except, which leaves name at its initial value
PreviousResponseName(previous_command_id, last_byte_offset) ==
    IF previous_command_id \notin COMMAND_IDS THEN "Unexpected response"
    ELSE LET response_names ==
                 COMMAND_ID_TO_DESCRIPTION(previous_command_id).response_names
         IN  IF response_names = NoList THEN "Unexpected response"
             ELSE IF last_byte_offset >= Len(response_names[1])
                  THEN "Unexpected response"
             ELSE response_names[1][last_byte_offset + 1]

\* lines 228-241
ReadCmdBuffName(previous_command_id, count, value) ==
    IF count = 1 THEN
        IF value = 255 THEN "CTS (ready)" ELSE "CTS (not ready)"
    ELSE IF previous_command_id = FIFO_INFO THEN
        IF count = 2 THEN RxFifoCountName(value)
        ELSE IF count = 3 THEN TxFifoSpaceName(value)
        ELSE "Unexpected response"
    ELSE PreviousResponseName(previous_command_id, count - 1)

decode_read_cmd_buff_reponse_byte(previous_command_id, received) ==
    LET last_byte == Last(received)
        count == Len(received)
        payload == Hex(last_byte.value)
    IN  Returned(AnalyzerFrame("command_payload",
            last_byte.start_time, last_byte.end_time,
            "< " \o ReadCmdBuffName(previous_command_id, count, last_byte.value),
            payload))

(***************************************************************************)
(* decode_argument_byte                                                    *)
(***************************************************************************)
\* line 255: the trailing comma makes name the tuple ("Unknown argument",),
\* which an f-string formats by its repr
UnknownArgumentName == "('Unknown argument',)"

\* the field one place before the one line 260 takes
ArgumentName_OffByOne(command_id, last_byte_offset) ==
    IF command_id = WRITE_TX_FIFO THEN Indexed("DATA", last_byte_offset)
    ELSE IF command_id \notin COMMAND_IDS THEN UnknownArgumentName
    ELSE LET argument_names ==
                 COMMAND_ID_TO_DESCRIPTION(command_id).argument_names
         IN  IF argument_names = NoList THEN UnknownArgumentName
             ELSE IF last_byte_offset >= Len(argument_names[1])
                  THEN UnknownArgumentName
             ELSE argument_names[1][last_byte_offset]

\* lines 259-260 without the test of line 257
ArgumentName_NoTxFifoCase(command_id, last_byte_offset) ==
    IF command_id \notin COMMAND_IDS THEN UnknownArgumentName
    ELSE LET argument_names ==
                 COMMAND_ID_TO_DESCRIPTION(command_id).argument_names
         IN  IF argument_names = NoList THEN UnknownArgumentName
             ELSE IF last_byte_offset >= Len(argument_names[1])
                  THEN UnknownArgumentName
             ELSE argument_names[1][last_byte_offset + 1]

\* lines 255-262
ArgumentName(command_id, last_byte_offset) ==
    IF command_id = WRITE_TX_FIFO THEN Indexed("DATA", last_byte_offset)
    ELSE IF command_id \notin COMMAND_IDS THEN UnknownArgumentName
    ELSE LET argument_names ==
                 COMMAND_ID_TO_DESCRIPTION(command_id).argument_names
         IN  IF argument_names = NoList THEN UnknownArgumentName
             ELSE IF last_byte_offset >= Len(argument_names[1])
                  THEN UnknownArgumentName
             ELSE argument_names[1][last_byte_offset + 1]

decode_argument_byte(command_id, sent) ==
    IF command_id # sent[1].value THEN Raised("AssertionError", 250)
    ELSE LET last_byte == Last(sent)
             count == Len(sent)
             last_byte_offset == count - 1
         IN  Returned(AnalyzerFrame("command_payload",
                 last_byte.start_time, last_byte.end_time,
                 "> " \o ArgumentName(command_id, last_byte_offset),
                 Hex(last_byte.value)))

(***************************************************************************)
(* Si4467Analyzer                                                          *)
(***************************************************************************)
VARIABLES
    nsel_start_time,      \* self.nsel_start_time, None or a time
    current_command_id,   \* self.current_command_id, None or a byte value
    previous_command_id,  \* self.previous_command_id, None or a byte value
    _bytes_sent,          \* self._bytes_sent
    _bytes_received,      \* self._bytes_received
    now,                  \* time of the capture: start of the next frame
    frame,                \* the frame last handed to decode()
    result,               \* what that call returned or raised
    bus                   \* what the frames handed over so far say of the bus

vars == <<nsel_start_time, current_command_id, previous_command_id,
          _bytes_sent, _bytes_received, now, frame, result, bus>>

(***************************************************************************)
(* The bytes on the bus.  The first byte after NSEL is asserted is drawn    *)
(* from the opcodes of every flavour of command and 0x99, which no          *)
(* CommandDescription has; the bytes after it carry data in both            *)
(* directions: on miso the ready value and both sides of the FIFO           *)
(* threshold.  A byte clocked while NSEL is not asserted is a stray byte.   *)
(***************************************************************************)
OpcodeValues == {NOP, PART_INFO, FIFO_INFO, POWER_UP, WRITE_TX_FIFO, 153,
                 READ_CMD_BUFF, READ_RX_FIFO,
                 FRR_A_READ, FRR_B_READ, FRR_C_READ, FRR_D_READ}
MosiValues == {NOP, FIFO_INFO}
MisoValues == {255, 129, 130}
StrayValues == {PART_INFO, FRR_A_READ}

\* the <<mosi, miso>> pairs the next result frame can carry
BusBytes ==
    IF ~bus.asserted THEN StrayValues \X {255}
    ELSE IF bus.bytes = 0 THEN OpcodeValues \X {255, 129}
    ELSE MosiValues \X MisoValues

\* Si4467Analyzer.__init__; no frame was decoded and the bus was never selected
Init ==
    /\ nsel_start_time = None
    /\ current_command_id = None
    /\ previous_command_id = None
    /\ _bytes_sent = <<>>
    /\ _bytes_received = <<>>
    /\ now = 0
    /\ frame = [type |-> "none", start_time |-> 0, end_time |-> 0,
                mosi |-> None, miso |-> None]
    /\ result = ReturnedNone
    /\ bus = [asserted |-> FALSE, was_asserted |-> FALSE, aborted |-> "none",
              idle_since |-> "start", bytes |-> 0, opcode |-> None,
              context |-> None, values |-> <<>>, assert_time |-> None]

\* _add_frame_miso
add_frame_miso(f) == Append(_bytes_received, Byte(f.miso, f.start_time, f.end_time))

\* _add_frame_mosi
add_frame_mosi(f) == Append(_bytes_sent, Byte(f.mosi, f.start_time, f.end_time))

\* truth value of an Optional[int]: None and 0 are false
Truthy(x) == x # None /\ x # 0

\* the next frame of the capture
NextFrame(type, mosi, miso) ==
    [type |-> type, start_time |-> now, end_time |-> now + 1,
     mosi |-> mosi, miso |-> miso]

\* the capture goes on: the frame is handed to decode() and time advances
Deliver(f) ==
    /\ now < MaxTime
    /\ frame' = f
    /\ now' = f.end_time

(***************************************************************************)
(* The bus as the frames describe it, whatever the analyzer makes of them: *)
(* NSEL is asserted from an enable frame to the next disable frame; the    *)
(* transaction is the result frames in between, its opcode the mosi value  *)
(* of the first; context is the opcode of the last transaction closed with *)
(* at least one byte and an opcode that has no immediate response.         *)
(* was_asserted tells whether NSEL was asserted when the last frame came,  *)
(* aborted what the last enable frame cut short (a transaction with        *)
(* "bytes", an "empty" one, or "none" as NSEL was not asserted),           *)
(* idle_since how NSEL was last deasserted ("empty": with no byte since    *)
(* the assert).  values lists, in the order of the frames, what the bytes  *)
(* of the transaction carried in the direction of the transfer: mosi for   *)
(* the opcode and after an opcode with no immediate response, miso after   *)
(* the others.  assert_time is the start of the last enable frame.         *)
(***************************************************************************)
BusEnable ==
    bus' = [bus EXCEPT !.asserted = TRUE, !.was_asserted = bus.asserted,
                       !.aborted = IF ~bus.asserted THEN "none"
                                   ELSE IF bus.bytes = 0 THEN "empty"
                                   ELSE "bytes",
                       !.bytes = 0, !.opcode = None,
                       !.values = <<>>, !.assert_time = now]

BusResult(mosi, miso) ==
    bus' = IF bus.asserted
           THEN [bus EXCEPT !.was_asserted = TRUE, !.bytes = @ + 1,
                            !.opcode = IF bus.bytes = 0 THEN mosi ELSE @,
                            !.values = Append(@,
                                IF \/ bus.bytes = 0
                                   \/ bus.opcode \notin COMMANDS_WITH_IMMEDIATE_RESPONSE
                                THEN mosi ELSE miso)]
           ELSE [bus EXCEPT !.was_asserted = FALSE]

BusDisable ==
    bus' = IF bus.asserted
           THEN [asserted |-> FALSE, was_asserted |-> TRUE,
                 aborted |-> bus.aborted,
                 idle_since |-> IF bus.bytes = 0 THEN "empty" ELSE "closed",
                 bytes |-> 0, opcode |-> None,
                 context |-> IF /\ bus.bytes > 0
                                /\ bus.opcode \notin COMMANDS_WITH_IMMEDIATE_RESPONSE
                             THEN bus.opcode ELSE bus.context,
                 values |-> <<>>, assert_time |-> bus.assert_time]
           ELSE [bus EXCEPT !.was_asserted = FALSE]

(***************************************************************************)
(* Si4467Analyzer.decode                                                   *)
(***************************************************************************)
\* an enable frame that restarts the time span and leaves the bytes and the
\* command id of the open transaction in place
DecodeEnable_KeepsTransaction ==
    LET f == NextFrame("enable", None, None) IN
    /\ Deliver(f)
    /\ nsel_start_time' = f.start_time
    /\ result' = ReturnedNone
    /\ BusEnable
    /\ UNCHANGED <<previous_command_id, current_command_id,
                   _bytes_sent, _bytes_received>>

\* an enable frame that empties the byte lists and leaves the command id
\* of the open transaction in place
DecodeEnable_KeepsCommandId ==
    LET f == NextFrame("enable", None, None) IN
    /\ Deliver(f)
    /\ nsel_start_time' = f.start_time
    /\ _bytes_sent' = <<>>
    /\ _bytes_received' = <<>>
    /\ result' = ReturnedNone
    /\ BusEnable
    /\ UNCHANGED <<current_command_id, previous_command_id>>

\* lines 295-300
DecodeEnable ==
    LET f == NextFrame("enable", None, None) IN
    /\ Deliver(f)
    /\ nsel_start_time' = f.start_time
    /\ current_command_id' = None
    /\ _bytes_sent' = <<>>
    /\ _bytes_received' = <<>>
    /\ result' = ReturnedNone
    /\ BusEnable
    /\ UNCHANGED previous_command_id

\* the summary with the received bytes listed before the sent ones
Summary_ReceivedFirst(f) ==
    LET first_byte == _bytes_sent[1] IN
    AnalyzerFrame("command", nsel_start_time, f.end_time,
        IF first_byte.value \in COMMAND_IDS
        THEN COMMAND_ID_TO_NAME(first_byte.value) ELSE "Unknown command",
        JoinHex(_bytes_received \o _bytes_sent))

\* the summary frame of lines 310-315
Summary(f) ==
    LET first_byte == _bytes_sent[1] IN
    AnalyzerFrame("command", nsel_start_time, f.end_time,
        IF first_byte.value \in COMMAND_IDS
        THEN COMMAND_ID_TO_NAME(first_byte.value) ELSE "Unknown command",
        JoinHex(_bytes_sent \o _bytes_received))

\* the command to remember, were line 317 not to test for the commands
\* with an immediate response
ClosedContext_Always == current_command_id

\* line 317-318
ClosedContext ==
    IF current_command_id \notin COMMANDS_WITH_IMMEDIATE_RESPONSE
    THEN current_command_id ELSE previous_command_id

\* a decoder that takes a transaction to be open at all times
NotSelected_Never == FALSE

\* line 302: no enable frame opened a transaction
NotSelected == nsel_start_time = None

\* lines 302-303, 307-308: the disable frame is ignored
DisableIgnored == NotSelected \/ _bytes_sent = <<>>

\* the context updated before the check of line 307
ContextAfterDisable_BeforeEmptyCheck ==
    IF nsel_start_time = None THEN previous_command_id ELSE ClosedContext

\* self.previous_command_id when decode() is done with a disable frame
ContextAfterDisable ==
    IF DisableIgnored THEN previous_command_id ELSE ClosedContext

\* lines 302-322
DecodeDisable ==
    LET f == NextFrame("disable", None, None) IN
    /\ Deliver(f)
    /\ BusDisable
    /\ previous_command_id' = ContextAfterDisable
    /\ IF DisableIgnored
       THEN /\ result' = ReturnedNone
            /\ UNCHANGED <<nsel_start_time, current_command_id,
                           _bytes_sent, _bytes_received>>
       ELSE /\ result' = Returned(Summary(f))
            /\ nsel_start_time' = None
            /\ current_command_id' = None
            /\ _bytes_sent' = <<>>
            /\ _bytes_received' = <<>>

\* line 337 without the test of previous_command_id
IsDeferredRead_AnyContext == current_command_id = READ_CMD_BUFF

\* line 337: the transaction is read as the response to the previous command
IsDeferredRead ==
    current_command_id = READ_CMD_BUFF /\ Truthy(previous_command_id)

\* lines 302-303, 324-346
DecodeResult(mosi, miso) ==
    LET f == NextFrame("result", mosi, miso) IN
    /\ Len(_bytes_sent) < MaxSent
    /\ Len(_bytes_received) < MaxReceived
    /\ Deliver(f)
    /\ BusResult(mosi, miso)
    /\ UNCHANGED <<nsel_start_time, previous_command_id>>
    /\ IF NotSelected THEN
            /\ result' = ReturnedNone
            /\ UNCHANGED <<current_command_id, _bytes_sent, _bytes_received>>
       ELSE IF current_command_id = None THEN
            IF Len(_bytes_sent) # 0 \/ Len(_bytes_received) # 0 THEN
                /\ result' = Raised("AssertionError",
                                    IF Len(_bytes_sent) # 0 THEN 327 ELSE 328)
                /\ UNCHANGED <<current_command_id, _bytes_sent, _bytes_received>>
            ELSE
                /\ _bytes_sent' = add_frame_mosi(f)
                /\ current_command_id' = _bytes_sent'[1].value
                /\ result' = Returned(AnalyzerFrame("command_payload",
                                 _bytes_sent'[1].start_time, _bytes_sent'[1].end_time,
                                 "> CMD", Hex(_bytes_sent'[1].value)))
                /\ UNCHANGED _bytes_received
       ELSE IF IsDeferredRead THEN
            /\ _bytes_received' = add_frame_miso(f)
            /\ result' = decode_read_cmd_buff_reponse_byte(previous_command_id,
                                                           _bytes_received')
            /\ UNCHANGED <<current_command_id, _bytes_sent>>
       ELSE IF current_command_id \in COMMANDS_WITH_IMMEDIATE_RESPONSE THEN
            /\ _bytes_received' = add_frame_miso(f)
            /\ result' = decode_immediate_reponse_byte(current_command_id,
                                                       _bytes_received')
            /\ UNCHANGED <<current_command_id, _bytes_sent>>
       ELSE
            /\ _bytes_sent' = add_frame_mosi(f)
            /\ result' = decode_argument_byte(current_command_id, _bytes_sent')
            /\ UNCHANGED <<current_command_id, _bytes_received>>

Next ==
    \/ DecodeEnable
    \/ DecodeDisable
    \/ \E b \in BusBytes : DecodeResult(b[1], b[2])

Spec == Init /\ [][Next]_vars

(***************************************************************************)
(* Vocabulary of the properties                                            *)
(***************************************************************************)
\* the last call of decode() returned exactly one frame
ReturnedOne == result.raised = "" /\ Len(result.frames) = 1

\* the label of the frame the last call returned
Label == result.frames[1].name

\* the last frame was a byte that decode() took as a response byte of an
\* open READ_CMD_BUFF transaction; Len(_bytes_received) is its count
ReadCmdBuffResponse ==
    /\ frame.type = "result"
    /\ nsel_start_time # None
    /\ current_command_id = READ_CMD_BUFF
    /\ Len(_bytes_received) >= 1

\* the opcodes that have no immediate response, among the bytes of the bus
NonImmediate(id) == id # None /\ id \notin COMMANDS_WITH_IMMEDIATE_RESPONSE

\* the response field of the descriptor of p at index i (from 0, CTS being
\* index 0), if the registry has one
HasResponseField(p, i) ==
    \E k \in 1..Len(COMMAND_LIST) :
        /\ COMMAND_LIST[k].id = p
        /\ COMMAND_LIST[k].response_names # NoList
        /\ i < Len(COMMAND_LIST[k].response_names[1])

ResponseField(p, i) ==
    LET k == CHOOSE k \in 1..Len(COMMAND_LIST) : COMMAND_LIST[k].id = p
    IN  COMMAND_LIST[k].response_names[1][i + 1]

(***************************************************************************)
(* C1 (as claimed): whatever the sequence of enable, result and disable    *)
(* frames, no call of decode() raises: no assertion fails, also not in a   *)
(* transaction longer than its descriptor.                                 *)
(* Fails: the fifth response byte of an FRR_x_READ fails the assert        *)
(* last_byte_offset <= 3.                                                  *)
(***************************************************************************)
C1_NeverAborts == result.raised = ""

(***************************************************************************)
(* C2 (as claimed): the first response byte of a READ_CMD_BUFF transaction *)
(* that follows a closed transaction with a non-immediate opcode P, NOP    *)
(* included, is labeled "< CTS (ready)" if miso is 0xFF and                *)
(* "< CTS (not ready)" otherwise.                                          *)
(* Fails for P = NOP (0x00): line 337 tests the truth value of             *)
(* previous_command_id, and the byte is labeled "< CTS".                   *)
(***************************************************************************)
C2_ReadyFlagAfterAnyCommand ==
    (/\ ReadCmdBuffResponse
     /\ bus.was_asserted /\ bus.opcode = READ_CMD_BUFF
     /\ bus.context # None
     /\ Len(_bytes_received) = 1)
    => /\ ReturnedOne
       /\ Label = IF frame.miso = 255 THEN "< CTS (ready)"
                                      ELSE "< CTS (not ready)"

(***************************************************************************)
(* C3 (as claimed): with a previous non-immediate command P other than     *)
(* FIFO_INFO, response byte count >= 2 of a READ_CMD_BUFF transaction is   *)
(* labeled with the response field of P at index count-1, and              *)
(* "< Unexpected response" if P has no such field, is not registered or    *)
(* has no response list.                                                   *)
(* Fails for P = NOP, by the truth test that fails C2: the bytes are       *)
(* labeled "< BYTE[count-2]".                                              *)
(***************************************************************************)
C3_ResponseFieldOfPrevious ==
    (/\ ReadCmdBuffResponse
     /\ NonImmediate(previous_command_id)
     /\ previous_command_id # FIFO_INFO
     /\ Len(_bytes_received) >= 2)
    => /\ ReturnedOne
       /\ Label = IF HasResponseField(previous_command_id, Len(_bytes_received) - 1)
                  THEN "< " \o ResponseField(previous_command_id,
                                             Len(_bytes_received) - 1)
                  ELSE "< Unexpected response"

(***************************************************************************)
(* C4: with FIFO_INFO as the previous non-immediate command, response byte *)
(* 2 of a READ_CMD_BUFF transaction with value v is labeled                *)
(* "< RX_FIFO_COUNT (v)" if v <= 129 and "< RX_FIFO_COUNT (overflow!)" if  *)
(* v > 129, byte 3 "< TX_FIFO_SPACE (v)" if v <= 129 and                   *)
(* "< TX_FIFO_SPACE (illegal!)" if v > 129, every later byte               *)
(* "< Unexpected response".                                                *)
(***************************************************************************)
C4_FifoInfoThresholds ==
    (/\ ReadCmdBuffResponse
     /\ previous_command_id = FIFO_INFO
     /\ Len(_bytes_received) >= 2)
    => /\ ReturnedOne
       /\ Label =
            IF Len(_bytes_received) = 2 THEN
                IF frame.miso > 129 THEN "< RX_FIFO_COUNT (overflow!)"
                ELSE IF frame.miso = 129 THEN "< RX_FIFO_COUNT (129)"
                ELSE "< RX_FIFO_COUNT (" \o ToString(frame.miso) \o ")"
            ELSE IF Len(_bytes_received) = 3 THEN
                IF frame.miso > 129 THEN "< TX_FIFO_SPACE (illegal!)"
                ELSE IF frame.miso = 129 THEN "< TX_FIFO_SPACE (129)"
                ELSE "< TX_FIFO_SPACE (" \o ToString(frame.miso) \o ")"
            ELSE "< Unexpected response"

\* FIFO_INFO, then READ_CMD_BUFF answered 0xFF, 129, 130: the third byte is
\* flagged, the second, at the threshold, was not
C4_Witness ==
    /\ ReadCmdBuffResponse
    /\ previous_command_id = FIFO_INFO
    /\ Len(_bytes_received) = 3
    /\ _bytes_received[2].value = 129
    /\ frame.miso = 130
    /\ ReturnedOne
    /\ Label = "< TX_FIFO_SPACE (illegal!)"

(***************************************************************************)
(* C5 (as claimed): in a READ_CMD_BUFF transaction with the deferred       *)
(* context empty, every response byte after the first is labeled           *)
(* "< Unexpected response".                                                *)
(* Fails: the transaction is decoded by decode_immediate_reponse_byte.     *)
(***************************************************************************)
C5_UnexpectedWithoutContext ==
    (/\ ReadCmdBuffResponse
     /\ previous_command_id = None
     /\ Len(_bytes_received) >= 2)
    => /\ ReturnedOne
       /\ Label = "< Unexpected response"

(***************************************************************************)
(* C5 (amended): in a READ_CMD_BUFF transaction with the deferred context  *)
(* empty, the first response byte is labeled "< CTS" and response byte     *)
(* n >= 2 is labeled "< BYTE[n-2]".                                        *)
(***************************************************************************)
C5_ByteIndexWithoutContext ==
    (/\ ReadCmdBuffResponse
     /\ previous_command_id = None)
    => /\ ReturnedOne
       /\ Label = IF Len(_bytes_received) = 1 THEN "< CTS"
                  ELSE "< BYTE[" \o ToString(Len(_bytes_received) - 2) \o "]"

\* the third response byte of a READ_CMD_BUFF that nothing preceded
C5_Witness ==
    /\ ReadCmdBuffResponse
    /\ previous_command_id = None
    /\ bus.context = None
    /\ Len(_bytes_received) = 3
    /\ ReturnedOne
    /\ Label = "< BYTE[1]"

(***************************************************************************)
(* C6 (as claimed): after any sequence of frames previous_command_id is    *)
(* the opcode of the last transaction that was closed by a disable frame   *)
(* with at least one byte and a non-immediate opcode, None if there was    *)
(* none, and never an immediate-response opcode.                           *)
(* Fails by the defect that fails C7: after an empty transaction a stray   *)
(* byte and a disable frame set the context.                               *)
(***************************************************************************)
C6_ContextIsLastClosedCommand ==
    /\ previous_command_id = bus.context
    /\ previous_command_id \notin COMMANDS_WITH_IMMEDIATE_RESPONSE

(***************************************************************************)
(* C7 (as claimed): once a transaction was closed with no byte, result and *)
(* disable frames that come before the next enable frame yield no          *)
(* annotation and no summary.                                              *)
(* Fails: line 308 returns with nsel_start_time still set, and the next    *)
(* byte is decoded as an opcode.                                           *)
(***************************************************************************)
C7_IdleAfterEmptyTransaction ==
    (/\ frame.type \in {"result", "disable"}
     /\ ~bus.was_asserted
     /\ bus.idle_since = "empty")
    => result = ReturnedNone

(***************************************************************************)
(* C8: a disable frame that closes a transaction with no byte returns no   *)
(* frame and leaves previous_command_id as it was, whatever came before    *)
(* the enable frame.                                                       *)
(***************************************************************************)
C8_EmptyTransactionSilent ==
    [][(frame'.type = "disable" /\ bus.asserted /\ bus.bytes = 0)
         => (result' = ReturnedNone
             /\ previous_command_id' = previous_command_id)]_vars

\* an empty transaction was closed while a command was remembered
C8_Witness ==
    /\ frame.type = "disable"
    /\ bus.was_asserted /\ ~bus.asserted
    /\ bus.idle_since = "empty"
    /\ previous_command_id = FIFO_INFO
    /\ result = ReturnedNone

(***************************************************************************)
(* C9: an enable frame that comes while NSEL is asserted drops the open    *)
(* transaction: it returns nothing and leaves previous_command_id alone;   *)
(* the next byte is decoded as an opcode ("> CMD", its mosi value, its     *)
(* span); and the disable frame that follows returns the summary of the    *)
(* bytes that came after that enable frame only, named by their opcode,    *)
(* and it is that opcode the context is updated with.                      *)
(***************************************************************************)
C9_SummaryName(opcode) ==
    IF \E k \in 1..Len(COMMAND_LIST) : COMMAND_LIST[k].id = opcode
    THEN COMMAND_LIST[CHOOSE k \in 1..Len(COMMAND_LIST) :
                          COMMAND_LIST[k].id = opcode].name
    ELSE "Unknown command"

C9_ReassertAborts ==
    [][/\ (frame'.type = "enable" /\ bus.asserted)
            => /\ result' = ReturnedNone
               /\ previous_command_id' = previous_command_id
       /\ (frame'.type = "result" /\ bus.asserted /\ bus.aborted # "none"
              /\ bus.bytes = 0)
            => result' = Returned(AnalyzerFrame("command_payload",
                             frame'.start_time, frame'.end_time,
                             "> CMD", Hex(frame'.mosi)))
       /\ (frame'.type = "disable" /\ bus.asserted /\ bus.aborted # "none"
              /\ bus.bytes > 0)
            => /\ result'.raised = ""
               /\ Len(result'.frames) = 1
               /\ result'.frames[1].type = "command"
               /\ result'.frames[1].name = C9_SummaryName(bus.opcode)
               /\ Len(result'.frames[1].payload) = 5 * bus.bytes - 1
               /\ previous_command_id' =
                    IF NonImmediate(bus.opcode) THEN bus.opcode
                    ELSE previous_command_id
      ]_vars

\* PART_INFO was cut short by an enable frame; FIFO_INFO and one argument
\* followed and were closed
C9_Witness ==
    /\ frame.type = "disable"
    /\ bus.was_asserted /\ ~bus.asserted
    /\ bus.aborted = "bytes"
    /\ previous_command_id = FIFO_INFO
    /\ ReturnedOne
    /\ Label = "FIFO_INFO"
    /\ result.frames[1].payload = "0x15 0x00"

(***************************************************************************)
(* C10 (as claimed): in a write-arguments transaction a byte past the end  *)
(* of argument_names, and every byte after an unregistered opcode, is      *)
(* labeled "> Unknown argument".                                           *)
(* Fails: the trailing comma of line 255 makes the default name a tuple,   *)
(* and the label is "> ('Unknown argument',)".                             *)
(***************************************************************************)
C10_UnknownArgumentLabel ==
    (/\ frame.type = "result"
     /\ nsel_start_time # None
     /\ NonImmediate(current_command_id)
     /\ current_command_id # WRITE_TX_FIFO
     /\ Len(_bytes_sent) >= 2
     /\ \A k \in 1..Len(COMMAND_LIST) :
            COMMAND_LIST[k].id = current_command_id
               => \/ COMMAND_LIST[k].argument_names = NoList
                  \/ Len(_bytes_sent) - 1 >= Len(COMMAND_LIST[k].argument_names[1]))
    => /\ ReturnedOne
       /\ Label = "> Unknown argument"

\* the last frame was a byte of the transaction that NSEL holds open;
\* bus.bytes counts it
ByteOfOpenTransaction == frame.type = "result" /\ bus.asserted

\* the last call returned one per-byte annotation that spans the last frame
PerByteAnnotation ==
    /\ ReturnedOne
    /\ result.frames[1].type = "command_payload"
    /\ result.frames[1].start_time = frame.start_time
    /\ result.frames[1].end_time = frame.end_time

\* the argument names of a registered command, <<>> if it has none
ArgumentNames(id) ==
    LET argument_names == COMMAND_ID_TO_DESCRIPTION(id).argument_names
    IN  IF argument_names = NoList THEN <<>> ELSE argument_names[1]

(***************************************************************************)
(* C11: in a transaction whose opcode is registered, has no immediate      *)
(* response and is not WRITE_TX_FIFO, byte k >= 1 after the opcode is      *)
(* labeled "> " and argument_names[k] of the descriptor of the opcode, if  *)
(* the list has an index k, and carries the mosi value, whatever the miso  *)
(* value and previous_command_id are.                                      *)
(***************************************************************************)
C11_ArgumentFieldOfOpcode ==
    (/\ ByteOfOpenTransaction
     /\ bus.bytes >= 2
     /\ bus.opcode \in COMMAND_IDS
     /\ bus.opcode \notin COMMANDS_WITH_IMMEDIATE_RESPONSE
     /\ bus.opcode # WRITE_TX_FIFO
     /\ bus.bytes - 1 < Len(ArgumentNames(bus.opcode)))
    => /\ PerByteAnnotation
       /\ Label = "> " \o ArgumentNames(bus.opcode)[bus.bytes]
       /\ result.frames[1].payload = Hex(frame.mosi)

\* the second argument of POWER_UP, with a command remembered and a miso
\* value that differs from the mosi value
C11_Witness ==
    /\ ByteOfOpenTransaction
    /\ bus.bytes = 3
    /\ bus.opcode = POWER_UP
    /\ previous_command_id = FIFO_INFO
    /\ frame.mosi = FIFO_INFO /\ frame.miso = 130
    /\ ReturnedOne
    /\ Label = "> XTAL_OPTIONS"
    /\ result.frames[1].payload = "0x15"

(***************************************************************************)
(* C12: in a WRITE_TX_FIFO transaction byte n >= 1 after the opcode is     *)
(* labeled "> DATA[n]", however long the transaction is, and never as an   *)
(* unknown argument.                                                       *)
(***************************************************************************)
C12_TxFifoDataIndex ==
    (/\ ByteOfOpenTransaction
     /\ bus.bytes >= 2
     /\ bus.opcode = WRITE_TX_FIFO)
    => /\ PerByteAnnotation
       /\ Label = "> DATA[" \o ToString(bus.bytes - 1) \o "]"
       /\ Label # "> " \o UnknownArgumentName
       /\ Label # "> Unknown argument"
       /\ result.frames[1].payload = Hex(frame.mosi)

\* the second data byte of a WRITE_TX_FIFO, whose descriptor names no
\* argument
C12_Witness ==
    /\ ByteOfOpenTransaction
    /\ bus.bytes = 3
    /\ bus.opcode = WRITE_TX_FIFO
    /\ ReturnedOne
    /\ Label = "> DATA[2]"

\* the values of a transaction as the payload of a summary prints them
RECURSIVE C13_Payload(_)
C13_Payload(values) ==
    IF values = <<>> THEN ""
    ELSE IF Len(values) = 1 THEN Hex(values[1])
    ELSE Hex(values[1]) \o " " \o C13_Payload(Tail(values))

(***************************************************************************)
(* C13: a disable frame that closes a transaction with at least one byte   *)
(* returns exactly one frame, of type "command", named by the registered   *)
(* name of the opcode, "Unknown command" if the opcode is not registered,  *)
(* whose payload lists one value for each byte of the transaction in the   *)
(* order of the frames, the opcode first: the mosi value of the opcode and *)
(* of the argument bytes, the miso value of the response bytes.            *)
(***************************************************************************)
C13_SummaryListsTransaction ==
    [][(frame'.type = "disable" /\ bus.asserted /\ bus.bytes > 0)
         => /\ result'.raised = ""
            /\ Len(result'.frames) = 1
            /\ result'.frames[1].type = "command"
            /\ result'.frames[1].name = C9_SummaryName(bus.opcode)
            /\ Len(bus.values) = bus.bytes
            /\ bus.values[1] = bus.opcode
            /\ result'.frames[1].payload = C13_Payload(bus.values)
      ]_vars

\* READ_RX_FIFO was answered 0x81 and 0x82, while mosi carried other
\* values, and closed
C13_Witness ==
    /\ frame.type = "disable"
    /\ bus.was_asserted /\ ~bus.asserted
    /\ bus.idle_since = "closed"
    /\ ReturnedOne
    /\ result.frames[1].type = "command"
    /\ Label = "READ_RX_FIFO"
    /\ result.frames[1].payload = "0x77 0x81 0x82"

(***************************************************************************)
(* C14 (as claimed): every summary spans from the start of the enable      *)
(* frame that opened the transaction whose bytes it lists to the end of    *)
(* the disable frame that closed it, and none starts at the enable frame   *)
(* of a transaction that was closed or dropped before.                     *)
(* Fails by the defect that fails C7: after an empty transaction a stray   *)
(* byte and a disable frame return a summary that starts at the enable     *)
(* frame of the empty transaction.                                         *)
(***************************************************************************)
C14_SummarySpansItsTransaction ==
    (/\ frame.type = "disable"
     /\ ReturnedOne
     /\ result.frames[1].type = "command")
    => /\ bus.was_asserted
       /\ result.frames[1].start_time = bus.assert_time
       /\ result.frames[1].end_time = frame.end_time

\* the registers in their cyclic order, and the place in it of the register
\* an FRR_x_READ starts at
C15_Register == <<"A", "B", "C", "D">>

C15_Start(opcode) ==
    IF opcode = FRR_A_READ THEN 0
    ELSE IF opcode = FRR_B_READ THEN 1
    ELSE IF opcode = FRR_C_READ THEN 2
    ELSE 3

(***************************************************************************)
(* C15: after the opcode FRR_A_READ (0x50), FRR_B_READ (0x51), FRR_C_READ  *)
(* (0x53) or FRR_D_READ (0x57) the response byte at position k = 0..3 is   *)
(* labeled "< FRR_r_VALUE", r being register (X + k) mod 4 in the order    *)
(* A, B, C, D and X the register the opcode starts at, and carries the     *)
(* miso value.                                                             *)
(***************************************************************************)
C15_FrrRotation ==
    (/\ ByteOfOpenTransaction
     /\ bus.opcode \in {FRR_A_READ, FRR_B_READ, FRR_C_READ, FRR_D_READ}
     /\ bus.bytes - 2 \in 0..3)
    => /\ PerByteAnnotation
       /\ Label = "< FRR_"
                   \o C15_Register[((C15_Start(bus.opcode) + bus.bytes - 2) % 4) + 1]
                   \o "_VALUE"
       /\ result.frames[1].payload = Hex(frame.miso)

\* the fourth response byte of FRR_C_READ wraps around to register B
C15_Witness ==
    /\ ByteOfOpenTransaction
    /\ bus.opcode = FRR_C_READ
    /\ bus.bytes = 5
    /\ frame.mosi = NOP /\ frame.miso = 130
    /\ ReturnedOne
    /\ Label = "< FRR_B_VALUE"
    /\ result.frames[1].payload = "0x82"

(***************************************************************************)
(* C16: in every reachable state current_command_id is None exactly when   *)
(* _bytes_sent and _bytes_received are both empty, and is otherwise the    *)
(* value (mosi) of the first byte sent; _bytes_sent has exactly one        *)
(* element whenever _bytes_received is not empty; and no call has failed   *)
(* the assert statements of decode() lines 327 and 328, of                 *)
(* decode_argument_byte line 250 or of decode_immediate_reponse_byte line  *)
(* 167.                                                                    *)
(***************************************************************************)
C16_CommandIdIsFirstByte ==
    /\ (current_command_id = None)
         <=> (_bytes_sent = <<>> /\ _bytes_received = <<>>)
    /\ current_command_id # None
         => /\ _bytes_sent # <<>>
            /\ current_command_id = _bytes_sent[1].value
    /\ _bytes_received # <<>> => Len(_bytes_sent) = 1
    /\ result.line \notin {327, 328, 250, 167}

\* an enable frame cut a transaction with two arguments short, and the
\* transaction that followed has an opcode and two response bytes
C16_Witness ==
    /\ frame.type = "result"
    /\ bus.aborted = "bytes"
    /\ current_command_id = READ_RX_FIFO
    /\ Len(_bytes_sent) = 1
    /\ _bytes_sent[1].value = READ_RX_FIFO
    /\ Len(_bytes_received) = 2
    /\ ReturnedOne

(***************************************************************************)
(* C17 (as claimed): the first byte after an enable frame returns exactly  *)
(* one frame, labeled "> CMD", with its mosi value as payload and its own  *)
(* span, whatever its miso value and previous_command_id are; and every    *)
(* later byte of the same transaction returns exactly one per-byte frame   *)
(* with the span of that byte.                                             *)
(* Fails by the defect that fails C1: the fifth response byte of an        *)
(* FRR_x_READ raises AssertionError and returns no frame.                  *)
(***************************************************************************)
C17_OneAnnotationPerByte ==
    ByteOfOpenTransaction
    => IF bus.bytes = 1
       THEN result = Returned(AnalyzerFrame("command_payload",
                         frame.start_time, frame.end_time,
                         "> CMD", Hex(frame.mosi)))
       ELSE PerByteAnnotation

\* no enable frame came yet, or NSEL was deasserted after a transaction with
\* at least one byte, whose disable frame returned a summary (C13)
C18_NoTransactionOpen ==
    /\ ~bus.asserted
    /\ bus.idle_since \in {"start", "closed"}

(***************************************************************************)
(* C18: while no transaction is open, that is before the first enable      *)
(* frame and after a disable frame that returned a summary, a result frame *)
(* or a disable frame returns no frame and leaves nsel_start_time,         *)
(* current_command_id, previous_command_id, _bytes_sent and                *)
(* _bytes_received as they were.                                           *)
(***************************************************************************)
C18_IdleFramesIgnored ==
    [][(/\ frame'.type \in {"result", "disable"}
        /\ C18_NoTransactionOpen \/ NotSelected)
         => /\ result' = ReturnedNone
            /\ UNCHANGED <<nsel_start_time, current_command_id,
                           previous_command_id, _bytes_sent,
                           _bytes_received>>
      ]_vars

\* FIFO_INFO was closed and remembered, and a byte came before the next
\* enable frame
C18_Witness ==
    /\ frame.type = "result"
    /\ ~bus.asserted /\ ~bus.was_asserted
    /\ bus.idle_since = "closed"
    /\ nsel_start_time = None
    /\ current_command_id = None
    /\ _bytes_sent = <<>> /\ _bytes_received = <<>>
    /\ previous_command_id = FIFO_INFO
    /\ result = ReturnedNone

(***************************************************************************)
(* C19: in a READ_RX_FIFO transaction byte n >= 1 after the opcode is      *)
(* labeled "< DATA[n-1]" and carries its miso value, however long the      *)
(* transaction and whatever previous_command_id is; and the disable frame  *)
(* that closes the transaction leaves previous_command_id as it was.       *)
(***************************************************************************)
C19_RxFifoDataIndex ==
    [][/\ (/\ frame'.type = "result"
           /\ bus.asserted
           /\ bus.bytes >= 1
           /\ bus.opcode = READ_RX_FIFO)
            => /\ result'.raised = ""
               /\ Len(result'.frames) = 1
               /\ result'.frames[1].type = "command_payload"
               /\ result'.frames[1].start_time = frame'.start_time
               /\ result'.frames[1].end_time = frame'.end_time
               /\ result'.frames[1].name =
                     "< DATA[" \o ToString(bus.bytes - 1) \o "]"
               /\ result'.frames[1].payload = Hex(frame'.miso)
               /\ previous_command_id' = previous_command_id
       /\ (/\ frame'.type = "disable"
           /\ bus.asserted
           /\ bus.opcode = READ_RX_FIFO)
            => previous_command_id' = previous_command_id
      ]_vars

\* FIFO_INFO was remembered, and a READ_RX_FIFO with three response bytes
\* was closed
C19_Witness ==
    /\ frame.type = "disable"
    /\ bus.was_asserted /\ ~bus.asserted
    /\ bus.idle_since = "closed"
    /\ ReturnedOne
    /\ Label = "READ_RX_FIFO"
    /\ Len(result.frames[1].payload) = 19
    /\ previous_command_id = FIFO_INFO
    /\ bus.context = FIFO_INFO
====
